---- MODULE Spec2Model ----
(***************************************************************************)
(* Donau executor for Snakemake: job submission with retry (run_job,       *)
(* _run_cmd_with_retry), the two-phase status poll                         *)
(* (_get_donau_job_status_async) and the lifecycle reconciler              *)
(* (check_active_jobs).  The repository ships two Executor classes,        *)
(* snakemake_executor_plugin_donau ("plugin") and snakemake_executor_donau *)
(* ("legacy"); the variable variant says which one a behaviour runs.       *)
(***************************************************************************)
EXTENDS Integers, Sequences, FiniteSets, TLC

VARIABLES
  variant,        \* which Executor class is running: "plugin" or "legacy"
  started,        \* jobs already handed to run_job
  subpc,          \* run_job position: "idle", "try" (about to invoke), "sleep"
  sub_job,        \* the job run_job is submitting (0: none)
  sub_i,          \* loop index i of _run_cmd_with_retry
  calls,          \* check_output invocations of the current/last run_job
  sleeps,         \* time.sleep arguments of the current/last run_job, in order
  sub_ret,        \* how the last run_job ended, with what it returned or raised
  submissions,    \* report_job_submission calls, in order
  active_jobs,    \* the caller's list of tracked SubmittedJobInfo
  pollpc,         \* check_active_jobs position: "idle", "active", "hist", "classify", "hung"
  polled,         \* the active_jobs argument of the current/last poll cycle
  status_map,     \* status_map of _get_donau_job_status_async
  error_occurred, \* error_occurred of _get_donau_job_status_async
  queries,        \* djob calls issued in the current/last cycle, in order
  replies,        \* what each djob call did, in order
  snapshot,       \* what _get_donau_job_status_async returned
  events,         \* per-job outcomes of the current/last cycle, in order
  reports,        \* every report_job_success / report_job_error so far
  descr,          \* per job: its declared priority, threads and resources
  cancels         \* cancel_jobs calls so far: argument, dkill calls, raised or not

vars == <<variant, started, subpc, sub_job, sub_i, calls, sleeps, sub_ret,
          submissions, active_jobs, pollpc, polled, status_map, error_occurred,
          queries, replies, snapshot, events, reports, descr, cancels>>

subvars == <<started, subpc, sub_job, sub_i, calls, sleeps, sub_ret, submissions>>

pollvars == <<pollpc, polled, status_map, error_occurred, queries, replies,
              snapshot, events, reports>>

othervars == <<descr, cancels>>

----------------------------------------------------------------------------
(* Bounds *)

\* number of jobs the workflow engine hands to run_job
MaxJobs == 2

\* most lines the two djob calls of one poll cycle print together
MaxLines == 2

(* Program constants *)

\* _run_cmd_with_retry(cmd, retries=3, delay=2)
retries == 3

delay == 2

Variants == {"plugin", "legacy"}

Jobs == 1 .. MaxJobs

----------------------------------------------------------------------------
(* Text: a string is a sequence of one-character strings *)

DigitChars == <<"1", "2", "3", "4", "5", "6", "7", "8", "9">>

IsDigit(c) == c \in {"0", "1", "2", "3", "4", "5", "6", "7", "8", "9"}

IsSpace(c) == c \in {" ", "\n", "\t"}

\* the identifier the scheduler assigns to job j: "100", "200", ...
ExtId(j) == <<DigitChars[j], "0", "0">>

RECURSIVE LStrip(_)
LStrip(s) == IF s # <<>> /\ IsSpace(Head(s)) THEN LStrip(Tail(s)) ELSE s

RECURSIVE RStrip(_)
RStrip(s) ==
  IF s # <<>> /\ IsSpace(s[Len(s)]) THEN RStrip(SubSeq(s, 1, Len(s) - 1)) ELSE s

\* str.strip()
Strip(s) == RStrip(LStrip(s))

\* the longest run of digits of s that starts at position p (\d+, greedy)
RECURSIVE DigitRun(_, _)
DigitRun(s, p) ==
  IF p <= Len(s) /\ IsDigit(s[p]) THEN <<s[p]>> \o DigitRun(s, p + 1) ELSE <<>>

\* positions p where "<" digits ">" starts
BracketAt(s, p) ==
  /\ p <= Len(s)
  /\ s[p] = "<"
  /\ DigitRun(s, p + 1) # <<>>
  /\ p + 1 + Len(DigitRun(s, p + 1)) <= Len(s)
  /\ s[p + 1 + Len(DigitRun(s, p + 1))] = ">"

NoMatch == <<>>

\* re.search(r"<(\d+)>", output): group 1 of the leftmost match, or NoMatch
SearchBracket(s) ==
  LET hits == {p \in 1 .. Len(s) : BracketAt(s, p)}
  IN  IF hits = {} THEN NoMatch
      ELSE DigitRun(s, (CHOOSE p \in hits : \A q \in hits : p <= q) + 1)

\* the identifier search without the anchor at the start of the text
SearchLeadingAnywhere(s) ==
  LET hits == {p \in 1 .. Len(s) : IsDigit(s[p])}
  IN  IF hits = {} THEN NoMatch
      ELSE DigitRun(s, CHOOSE p \in hits : \A q \in hits : p <= q)

\* re.search(r"^\s*(\d+)", output): group 1, or NoMatch
SearchLeading(s) == DigitRun(LStrip(s), 1)

\* the identifier search that tries the leading number first
ExtractJobIdLeadingFirst(s) ==
  IF SearchLeading(s) # NoMatch THEN SearchLeading(s) ELSE SearchBracket(s)

\* match = re.search(r"<(\d+)>", output) or re.search(r"^\s*(\d+)", output)
ExtractJobId(s) ==
  IF SearchBracket(s) # NoMatch THEN SearchBracket(s) ELSE SearchLeading(s)

----------------------------------------------------------------------------
(* run_job: the submission command *)

JobNames == <<"smk_rule1_1a2b3c4d", "smk_rule2_1a2b3c4d", "smk_rule3_1a2b3c4d",
              "smk_rule4_1a2b3c4d">>

\* jobname: the legacy f-string escapes its braces and renders the field name
JobName(v, j) == IF v = "plugin" THEN JobNames[j] ELSE "smk_{job.name}_1a2b3c4d"

LogFiles == <<"/wd/.snakemake/donau_logs/rule_rule1/unique/1.log",
              "/wd/.snakemake/donau_logs/rule_rule2/unique/2.log",
              "/wd/.snakemake/donau_logs/rule_rule3/unique/3.log",
              "/wd/.snakemake/donau_logs/rule_rule4/unique/4.log">>

LegacyLogFiles == <<"/wd/.snakemake/donau_logs/rule_{job.name}/unique/1.log",
                    "/wd/.snakemake/donau_logs/rule_{job.name}/unique/2.log",
                    "/wd/.snakemake/donau_logs/rule_{job.name}/unique/3.log",
                    "/wd/.snakemake/donau_logs/rule_{job.name}/unique/4.log">>

\* logfile = os.path.abspath(".snakemake/donau_logs/<folder>/<wildcards>/<jobid>.log")
LogFile(v, j) == IF v = "plugin" THEN LogFiles[j] ELSE LegacyLogFiles[j]

ExecJobs == <<"snakemake --allowed-rules rule1", "snakemake --allowed-rules rule2",
              "snakemake --allowed-rules rule3", "snakemake --allowed-rules rule4">>

(* Declared values: job.priority, job.threads and the entries of job.resources *)

\* a resource that is not declared, an int, and a str (s as a token, chars as
\* its characters)
Absent == [tag |-> "none", n |-> 0, s |-> "", chars |-> <<>>]

IntV(n) == [tag |-> "int", n |-> n, s |-> "", chars |-> <<>>]

StrV(s, chars) == [tag |-> "str", n |-> 0, s |-> s, chars |-> chars]

\* the truth value Python gives v in "if v" and "v or w"
Truthy(v) ==
  CASE v.tag = "none" -> FALSE
    [] v.tag = "int" -> v.n # 0
    [] v.tag = "str" -> v.chars # <<>>

\* str(v)
PyStr(v) == IF v.tag = "int" THEN ToString(v.n) ELSE v.s

DigitVal(c) == CHOOSE k \in 0 .. 9 : <<"0", "1", "2", "3", "4", "5", "6", "7", "8", "9">>[k + 1] = c

RECURSIVE ToNumber(_)
ToNumber(ds) ==
  IF ds = <<>> THEN 0
  ELSE ToNumber(SubSeq(ds, 1, Len(ds) - 1)) * 10 + DigitVal(ds[Len(ds)])

\* int(v): an int as it is; a str when, stripped, it is an optional sign and
\* digits; ValueError (ok = FALSE) otherwise
IntConv(v) ==
  IF v.tag = "int" THEN [ok |-> TRUE, n |-> v.n]
  ELSE LET t == Strip(v.chars)
           signed == t # <<>> /\ Head(t) \in {"+", "-"}
           ds == IF signed THEN Tail(t) ELSE t
       IN  IF ds # <<>> /\ \A k \in DOMAIN ds : IsDigit(ds[k])
           THEN [ok |-> TRUE,
                 n |-> IF signed /\ Head(t) = "-" THEN 0 - ToNumber(ds) ELSE ToNumber(ds)]
           ELSE [ok |-> FALSE, n |-> 0]

PyMax(a, b) == IF a >= b THEN a ELSE b

PyMin(a, b) == IF a <= b THEN a ELSE b

\* a job that declares one thread, priority 0 and no resource
DefaultJob ==
  [priority |-> 0, threads |-> 1, queue |-> Absent, partition |-> Absent,
   nodes |-> Absent, replica |-> Absent, account |-> Absent, mpi |-> Absent,
   exclusive |-> Absent, tag |-> Absent, mem_mb |-> Absent,
   mem_mb_per_cpu |-> Absent, runtime |-> Absent, time_min |-> Absent]

\* cmd_parts = ["dsub", "-n", jobname, "-oo", logfile] and --cwd
BaseParts(v, j) == <<"dsub", "-n", JobName(v, j), "-oo", LogFile(v, j), "--cwd", "/wd">>

\* -q from queue, else from partition
QueueFlag(d) ==
  IF Truthy(d.queue) THEN <<"-q", PyStr(d.queue)>>
  ELSE IF Truthy(d.partition) THEN <<"-q", PyStr(d.partition)>>
  ELSE <<>>

\* -p: p_val = max(1, min(9999, int(job.priority))) when job.priority != 0
PriorityFlag(d) ==
  IF d.priority # 0
  THEN <<"-p", ToString(PyMax(1, PyMin(9999, d.priority)))>>
  ELSE <<>>

\* -N: nnodes = nodes or replica
NodesFlag(d) ==
  LET nnodes == IF Truthy(d.nodes) THEN d.nodes ELSE d.replica
  IN  IF Truthy(nnodes) THEN <<"-N", PyStr(nnodes)>> ELSE <<>>

AccountFlag(d) == IF Truthy(d.account) THEN <<"-A", PyStr(d.account)>> ELSE <<>>

MpiFlag(d) == IF Truthy(d.mpi) THEN <<"--mpi", PyStr(d.mpi)>> ELSE <<>>

ExclusiveFlag(d) == IF Truthy(d.exclusive) THEN <<"-x", "job">> ELSE <<>>

TagFlag(d) == IF Truthy(d.tag) THEN <<"--tag", PyStr(d.tag)>> ELSE <<>>

\* cpus = max(1, job.threads)
Cpus(d) == PyMax(1, d.threads)

\* mem_mb = resources.get("mem_mb", 1024), replaced by mem_mb_per_cpu * cpus
\* (mem_mb_per_cpu a number)
MemMb(d) ==
  IF Truthy(d.mem_mb_per_cpu) THEN IntV(d.mem_mb_per_cpu.n * Cpus(d))
  ELSE IF d.mem_mb.tag = "none" THEN IntV(1024)
  ELSE d.mem_mb

\* the -R token: the legacy f-string escapes its braces and renders the
\* expressions' text instead of their values
ResourceToken(v, d) ==
  IF v = "plugin"
  THEN "cpu=" \o ToString(Cpus(d)) \o ",mem=" \o ToString(IntConv(MemMb(d)).n) \o "MB"
  ELSE "cpu={cpus},mem={int(mem_mb)}MB"

\* runtime_min = runtime or time_min
RuntimeMin(d) == IF Truthy(d.runtime) THEN d.runtime ELSE d.time_min

\* -T: int(runtime_min) * 60, unless the conversion raises ValueError
RuntimeFlag(d) ==
  IF Truthy(RuntimeMin(d)) /\ IntConv(RuntimeMin(d)).ok
  THEN <<"-T", ToString(IntConv(RuntimeMin(d)).n * 60)>>
  ELSE <<>>

\* the flags with the priority flag appended after the runtime flag
FlagsPriorityLast(v, d) ==
  QueueFlag(d) \o AccountFlag(d) \o MpiFlag(d) \o NodesFlag(d) \o ExclusiveFlag(d)
    \o TagFlag(d) \o <<"-R", ResourceToken(v, d)>> \o RuntimeFlag(d) \o PriorityFlag(d)

\* the flags in the order run_job appends them; the legacy class knows only
\* -q, -A, --mpi, -R and -T
Flags(v, d) ==
  IF v = "plugin"
  THEN QueueFlag(d) \o PriorityFlag(d) \o NodesFlag(d) \o AccountFlag(d) \o MpiFlag(d)
         \o ExclusiveFlag(d) \o TagFlag(d) \o <<"-R", ResourceToken(v, d)>>
         \o RuntimeFlag(d)
  ELSE QueueFlag(d) \o AccountFlag(d) \o MpiFlag(d) \o <<"-R", ResourceToken(v, d)>>
         \o RuntimeFlag(d)

\* cmd_parts of job j declared as d, with the payload appended last
CmdPartsOf(v, j, d) == BaseParts(v, j) \o Flags(v, d) \o <<ExecJobs[j]>>

\* cmd_parts of job j
CmdParts(v, j) == CmdPartsOf(v, j, descr[j])

\* the ValueError of int(runtime_min) left uncaught
BuildErrorRuntimeUncaught(v, d) ==
  IF Truthy(RuntimeMin(d)) /\ ~IntConv(RuntimeMin(d)).ok THEN "ValueError"
  ELSE IF v = "plugin" /\ ~IntConv(MemMb(d)).ok THEN "ValueError"
  ELSE "none"

\* the exception that escapes the construction of cmd_parts: run_job catches
\* the ValueError of int(runtime_min); int(mem_mb) is evaluated by the plugin
\* class only and is not guarded
BuildError(v, d) ==
  IF v = "plugin" /\ ~IntConv(MemMb(d)).ok THEN "ValueError" ELSE "none"

\* SubmittedJobInfo(job, external_jobid=..., aux={"logfile": logfile})
SubmittedJobInfo(v, j, id) ==
  [job |-> j, external_jobid |-> id, logfile |-> LogFile(v, j)]

----------------------------------------------------------------------------
(* _run_cmd_with_retry and the rest of run_job *)

\* what one subprocess.check_output call does: exit 0 ("ok"), a non-zero exit
\* ("fail", CalledProcessError) or no process at all ("noexec", OSError)
SubOutcome(k, text) == [kind |-> k, out |-> text]

OutBracket(j) == <<"j", "o", "b", " ", "<">> \o ExtId(j) \o <<">", "\n">>

OutBare(j) == ExtId(j) \o <<"\n">>

OutNoId == <<"o", "k", "\n">>

OutError == <<"d", "e", "n", "i", "e", "d", "\n">>

SubOutcomes(j) ==
  {SubOutcome("ok", t) : t \in {OutBracket(j), OutBare(j), OutNoId}}
    \cup {SubOutcome("fail", OutError), SubOutcome("noexec", <<>>)}

NoCmd == <<>>

Ret(k, why, cmd, output) == [kind |-> k, why |-> why, cmd |-> cmd, output |-> output]

NoRet == Ret("none", "", NoCmd, <<>>)

\* if i == retries - 1: raise
IsLastAttempt(i) == i = retries - 1

\* the backoff computed from the loop index alone
BackoffDelayFromZero(i) == delay * i

\* time.sleep(delay * (i + 1))
BackoffDelay(i) == delay * (i + 1)

\* the submission error with e.output left out
SubmissionErrorNoOutput(cmd, output) == Ret("WorkflowError", "submission", cmd, <<>>)

\* raise WorkflowError(f"Donau submission failed.\nCommand: {cmd_str}\nOutput: {e.output}")
SubmissionError(cmd, output) == Ret("WorkflowError", "submission", cmd, output)

\* raise WorkflowError(f"Could not parse Donau Job ID from output:\n{output}")
ParseError(output) == Ret("WorkflowError", "parse", NoCmd, output)

\* run_job up to the first check_output call
RunJobStart(j) ==
  /\ subpc = "idle"
  /\ j \notin started
  /\ started' = started \cup {j}
  /\ sub_job' = j
  /\ sub_i' = 0
  /\ calls' = <<>>
  /\ sleeps' = <<>>
  /\ IF BuildError(variant, descr[j]) # "none"
     THEN /\ sub_ret' = Ret(BuildError(variant, descr[j]), "", NoCmd, <<>>)
          /\ subpc' = "idle"
     ELSE /\ sub_ret' = Ret("running", "", CmdParts(variant, j), <<>>)
          /\ subpc' = "try"
  /\ UNCHANGED <<variant, submissions, active_jobs>>
  /\ UNCHANGED pollvars
  /\ UNCHANGED othervars

\* check_output exits 0: _run_cmd_with_retry returns the stripped output and
\* run_job extracts the identifier and reports the submission
AttemptSucceeds(o) ==
  /\ subpc = "try"
  /\ o.kind = "ok"
  /\ calls' = Append(calls, o)
  /\ LET output == Strip(o.out)
         id == ExtractJobId(output)
         info == SubmittedJobInfo(variant, sub_job, id)
     IN  IF id = NoMatch
         THEN /\ sub_ret' = ParseError(output)
              /\ UNCHANGED <<submissions, active_jobs>>
         ELSE /\ sub_ret' = Ret("submitted", "", sub_ret.cmd, output)
              /\ submissions' = Append(submissions, info)
              /\ active_jobs' = Append(active_jobs, info)
  /\ subpc' = "idle"
  /\ UNCHANGED <<variant, started, sub_job, sub_i, sleeps>>
  /\ UNCHANGED pollvars
  /\ UNCHANGED othervars

\* check_output raises CalledProcessError: re-raised on the last attempt (and
\* turned into a WorkflowError by run_job), a backoff sleep otherwise
AttemptFails(o) ==
  /\ subpc = "try"
  /\ o.kind = "fail"
  /\ calls' = Append(calls, o)
  /\ IF IsLastAttempt(sub_i)
     THEN /\ sub_ret' = SubmissionError(sub_ret.cmd, o.out)
          /\ subpc' = "idle"
     ELSE /\ subpc' = "sleep"
          /\ UNCHANGED sub_ret
  /\ UNCHANGED <<variant, started, sub_job, sub_i, sleeps, submissions, active_jobs>>
  /\ UNCHANGED pollvars
  /\ UNCHANGED othervars

\* _run_cmd_with_retry catching every exception: a launch failure is retried
\* like a non-zero exit and ends as the submission error
AttemptCannotLaunchRetries(o) ==
  /\ subpc = "try"
  /\ o.kind = "noexec"
  /\ calls' = Append(calls, o)
  /\ IF IsLastAttempt(sub_i)
     THEN /\ sub_ret' = SubmissionError(sub_ret.cmd, o.out)
          /\ subpc' = "idle"
     ELSE /\ subpc' = "sleep"
          /\ UNCHANGED sub_ret
  /\ UNCHANGED <<variant, started, sub_job, sub_i, sleeps, submissions, active_jobs>>
  /\ UNCHANGED pollvars
  /\ UNCHANGED othervars

\* check_output raises something else (the executable is missing): neither
\* except clause catches it
AttemptCannotLaunch(o) ==
  /\ subpc = "try"
  /\ o.kind = "noexec"
  /\ calls' = Append(calls, o)
  /\ sub_ret' = Ret("OSError", "", sub_ret.cmd, <<>>)
  /\ subpc' = "idle"
  /\ UNCHANGED <<variant, started, sub_job, sub_i, sleeps, submissions, active_jobs>>
  /\ UNCHANGED pollvars
  /\ UNCHANGED othervars

\* time.sleep(delay * (i + 1)), then the next iteration of the loop
BackoffSleep ==
  /\ subpc = "sleep"
  /\ sleeps' = Append(sleeps, BackoffDelay(sub_i))
  /\ sub_i' = sub_i + 1
  /\ subpc' = "try"
  /\ UNCHANGED <<variant, started, sub_job, calls, sub_ret, submissions, active_jobs>>
  /\ UNCHANGED pollvars
  /\ UNCHANGED othervars

----------------------------------------------------------------------------
(* _get_donau_job_status_async *)

\* djob output, as the code reads it: a sequence of lines, a line being the
\* sequence of whitespace-separated fields line.split() gives; the first
\* field is an identifier, the others are words
SuccessTokens == {"FINISHED", "SUCCEEDED", "DONE", "0"}

FailTokens == {"FAILED", "ABORTED", "TIMEOUT", "NODE_FAIL", "TERMINATED", "EXIT"}

OtherTokens == {"RUNNING", "PENDING", "finished", "Done", "failed", "exit"}

Tokens == SuccessTokens \cup FailTokens \cup OtherTokens

\* the states a query reports in the lifecycle specification
CoreTokens == {"RUNNING", "FINISHED", "FAILED"}

\* an identifier no tracked job has
ForeignId == <<"9", "9", "9">>

\* {job.external_jobid for job in active_jobs}
JobIds(jobs) == {jobs[k].external_jobid : k \in DOMAIN jobs}

EmptyMap == [x \in {} |-> ""]

\* status_map[jid] = state
Put(sm, k, v) == [x \in DOMAIN sm \cup {k} |-> IF x = k THEN v ELSE sm[x]]

\* if len(parts) >= 2
HasState(parts) == Len(parts) >= 2

\* if jid in target_ids
Wanted(jid, target_ids) == jid \in target_ids

\* the loop over output.split("\n") of query_djob
RECURSIVE ParseLines(_, _, _)
ParseLines(out, target_ids, sm) ==
  IF out = <<>> THEN sm
  ELSE LET parts == Head(out)
       IN  ParseLines(Tail(out), target_ids,
                      IF HasState(parts) /\ Wanted(parts[1], target_ids)
                      THEN Put(sm, parts[1], parts[2])
                      ELSE sm)

\* what one djob call does: exit 0 ("ok"), a non-zero exit ("fail"), or no
\* process at all ("noexec", create_subprocess_exec raises)
QueryOutcome(k, lines) == [kind |-> k, out |-> lines]

\* whether query_djob reads the output: the plugin returns on a non-zero
\* returncode, the legacy class never looks at it
ReadsOutput(v, o) == IF v = "plugin" THEN o.kind = "ok" ELSE o.kind # "noexec"

\* whether query_djob sets error_occurred (the legacy class has no such flag)
SetsError(v, o) == v = "plugin" /\ o.kind # "ok"

\* query_djob(additional_args, target_ids) once the process has ended
QueryDjob(v, o, target_ids, sm, err) ==
  [sm |-> IF ReadsOutput(v, o) THEN ParseLines(o.out, target_ids, sm) ELSE sm,
   err |-> err \/ SetsError(v, o)]

\* the historical query asked about every identifier
RemainingAll(job_ids, sm) == job_ids

\* remaining = job_ids - set(status_map.keys())
Remaining(job_ids, sm) == job_ids \ DOMAIN sm

\* if remaining and not error_occurred (plugin); if remaining (legacy)
IssuesHistorical(v, remaining, err) ==
  IF v = "plugin" THEN remaining # {} /\ ~err ELSE remaining # {}

Snapshot(isnone, sm) == [none |-> isnone, map |-> sm]

\* if error_occurred: return None; return status_map
PollResult(v, sm, err) ==
  IF v = "plugin" /\ err THEN Snapshot(TRUE, EmptyMap) ELSE Snapshot(FALSE, sm)

Query(args, ids) == [args |-> args, ids |-> ids]

----------------------------------------------------------------------------
(* check_active_jobs *)

\* status_map[jid].upper()
Upper(state) ==
  CASE state = "finished" -> "FINISHED"
    [] state = "Done" -> "DONE"
    [] state = "failed" -> "FAILED"
    [] state = "exit" -> "EXIT"
    [] OTHER -> state

Event(k, job, state, logs) == [kind |-> k, job |-> job, state |-> state, aux_logs |-> logs]

\* a job whose identifier the snapshot lacks, with the yield left out
ClassifyAbsentDrops(v, job) ==
  IF v = "plugin" THEN <<Event("success", job, "", <<>>)>> ELSE <<>>

\* a job whose identifier the snapshot lacks: the plugin reports success,
\* the legacy class yields the job
ClassifyAbsent(v, job) ==
  IF v = "plugin" THEN <<Event("success", job, "", <<>>)>>
  ELSE <<Event("yield", job, "", <<>>)>>

\* the body of the loop with the job yielded after a success report too
ClassifyStateReyields(job, state) ==
  IF state \in SuccessTokens
  THEN <<Event("success", job, "", <<>>), Event("yield", job, "", <<>>)>>
  ELSE IF state \in FailTokens THEN <<Event("error", job, state, <<job.logfile>>)>>
  ELSE <<Event("yield", job, "", <<>>)>>

\* the body of the loop with "EXIT" missing from fail_states
ClassifyStateNoExit(job, state) ==
  IF state \in SuccessTokens THEN <<Event("success", job, "", <<>>)>>
  ELSE IF state \in FailTokens \ {"EXIT"}
  THEN <<Event("error", job, state, <<job.logfile>>)>>
  ELSE <<Event("yield", job, "", <<>>)>>

\* the body of the loop with a failure state treated as still running
ClassifyStateFailYields(job, state) ==
  IF state \in SuccessTokens THEN <<Event("success", job, "", <<>>)>>
  ELSE <<Event("yield", job, "", <<>>)>>

\* the body of the loop over active_jobs for a job the snapshot has: the
\* reports and yields it makes, in order
ClassifyState(job, state) ==
  IF state \in SuccessTokens THEN <<Event("success", job, "", <<>>)>>
  ELSE IF state \in FailTokens THEN <<Event("error", job, state, <<job.logfile>>)>>
  ELSE <<Event("yield", job, "", <<>>)>>

\* one iteration of the loop over active_jobs (for the plugin, of the loop
\* that yields every job when status_map is None)
ClassifyJob(v, job, snap) ==
  IF snap.none THEN <<Event("yield", job, "", <<>>)>>
  ELSE IF job.external_jobid \notin DOMAIN snap.map THEN ClassifyAbsent(v, job)
  ELSE ClassifyState(job, Upper(snap.map[job.external_jobid]))

\* the loop taking the jobs from the end of the list
RECURSIVE ClassifyReversed(_, _, _)
ClassifyReversed(v, jobs, snap) ==
  IF jobs = <<>> THEN <<>>
  ELSE ClassifyJob(v, jobs[Len(jobs)], snap)
         \o ClassifyReversed(v, SubSeq(jobs, 1, Len(jobs) - 1), snap)

\* the loop over active_jobs
RECURSIVE Classify(_, _, _)
Classify(v, jobs, snap) ==
  IF jobs = <<>> THEN <<>>
  ELSE ClassifyJob(v, Head(jobs), snap) \o Classify(v, Tail(jobs), snap)

RECURSIVE SelectKinds(_, _)
SelectKinds(evs, kinds) ==
  IF evs = <<>> THEN <<>>
  ELSE IF Head(evs).kind \in kinds THEN <<Head(evs)>> \o SelectKinds(Tail(evs), kinds)
  ELSE SelectKinds(Tail(evs), kinds)

RECURSIVE JobsOf(_)
JobsOf(evs) == IF evs = <<>> THEN <<>> ELSE <<Head(evs).job>> \o JobsOf(Tail(evs))

\* the jobs check_active_jobs yields
Yielded(evs) == JobsOf(SelectKinds(evs, {"yield"}))

\* the report_job_success and report_job_error calls
Reported(evs) == SelectKinds(evs, {"success", "error"})

\* check_active_jobs with a status map that outlives the call
PollStartKeepsMap ==
  /\ pollpc = "idle"
  /\ polled' = active_jobs
  /\ active_jobs' = <<>>
  /\ status_map' = status_map
  /\ error_occurred' = FALSE
  /\ replies' = <<>>
  /\ events' = <<>>
  /\ snapshot' = Snapshot(TRUE, EmptyMap)
  /\ IF JobIds(active_jobs) = {}
     THEN /\ queries' = <<>>
          /\ pollpc' = "idle"
     ELSE /\ queries' = <<Query(<<>>, JobIds(active_jobs))>>
          /\ pollpc' = "active"
  /\ UNCHANGED <<variant, reports>>
  /\ UNCHANGED subvars
  /\ UNCHANGED othervars

\* the caller hands its list to check_active_jobs, which computes job_ids and,
\* unless there is none, starts the active query
PollStart ==
  /\ pollpc = "idle"
  /\ polled' = active_jobs
  /\ active_jobs' = <<>>
  /\ status_map' = EmptyMap
  /\ error_occurred' = FALSE
  /\ replies' = <<>>
  /\ events' = <<>>
  /\ snapshot' = Snapshot(TRUE, EmptyMap)
  /\ IF JobIds(active_jobs) = {}
     THEN /\ queries' = <<>>
          /\ pollpc' = "idle"
     ELSE /\ queries' = <<Query(<<>>, JobIds(active_jobs))>>
          /\ pollpc' = "active"
  /\ UNCHANGED <<variant, reports>>
  /\ UNCHANGED subvars
  /\ UNCHANGED othervars

\* await query_djob([], job_ids) ends; the historical query starts if it is due
ActiveReturns(o) ==
  /\ pollpc = "active"
  /\ replies' = Append(replies, o)
  /\ LET ids == JobIds(polled)
         r == QueryDjob(variant, o, ids, status_map, error_occurred)
         remaining == Remaining(ids, r.sm)
     IN  /\ status_map' = r.sm
         /\ error_occurred' = r.err
         /\ IF IssuesHistorical(variant, remaining, r.err)
            THEN /\ queries' = Append(queries, Query(<<"-D">>, remaining))
                 /\ pollpc' = "hist"
                 /\ UNCHANGED snapshot
            ELSE /\ snapshot' = PollResult(variant, r.sm, r.err)
                 /\ pollpc' = "classify"
                 /\ UNCHANGED queries
  /\ UNCHANGED <<variant, active_jobs, polled, events, reports>>
  /\ UNCHANGED subvars
  /\ UNCHANGED othervars

\* await query_djob(["-D"], remaining) ends
HistReturns(o) ==
  /\ pollpc = "hist"
  /\ replies' = Append(replies, o)
  /\ LET r == QueryDjob(variant, o, queries[2].ids, status_map, error_occurred)
     IN  /\ status_map' = r.sm
         /\ error_occurred' = r.err
         /\ snapshot' = PollResult(variant, r.sm, r.err)
  /\ pollpc' = "classify"
  /\ UNCHANGED <<variant, active_jobs, polled, queries, events, reports>>
  /\ UNCHANGED subvars
  /\ UNCHANGED othervars

\* the loop over active_jobs: reports and yields; the caller keeps the
\* yielded jobs for the next cycle
Reconcile ==
  /\ pollpc = "classify"
  /\ events' = Classify(variant, polled, snapshot)
  /\ reports' = reports \o Reported(events')
  /\ active_jobs' = active_jobs \o Yielded(events')
  /\ pollpc' = "idle"
  /\ UNCHANGED <<variant, polled, status_map, error_occurred, queries, replies, snapshot>>
  /\ UNCHANGED subvars
  /\ UNCHANGED othervars

----------------------------------------------------------------------------
(* The environment: what the djob calls print *)

SeqsUpTo(S, n) == UNION {[1 .. k -> S] : k \in 0 .. n}

\* lines "<id> <state>"
StateLines(ids, tokens) == {<<i, t>> : i \in ids, t \in tokens}

\* also a line of another job, a line without a state and a line with a
\* third column
RichLines(ids) ==
  StateLines(ids \cup {ForeignId}, {"RUNNING", "FINISHED"})
    \cup {<<i>> : i \in ids}
    \cup {<<i, "FINISHED", "node7">> : i \in ids}

RECURSIVE LinesOf(_)
LinesOf(rs) == IF rs = <<>> THEN 0 ELSE Len(Head(rs).out) + LinesOf(Tail(rs))

\* lines the calls of this cycle may still print
LinesLeft == MaxLines - LinesOf(replies)

QueryOutcomes(lines, n) ==
  {QueryOutcome(k, out) : k \in {"ok", "fail"}, out \in SeqsUpTo(lines, n)}
    \cup {QueryOutcome("noexec", <<>>)}

----------------------------------------------------------------------------
(* The lifecycle: submissions and poll cycles *)

Init ==
  /\ variant \in Variants
  /\ descr = [j \in Jobs |-> DefaultJob]
  /\ cancels = <<>>
  /\ started = {}
  /\ subpc = "idle"
  /\ sub_job = 0
  /\ sub_i = 0
  /\ calls = <<>>
  /\ sleeps = <<>>
  /\ sub_ret = NoRet
  /\ submissions = <<>>
  /\ active_jobs = <<>>
  /\ pollpc = "idle"
  /\ polled = <<>>
  /\ status_map = EmptyMap
  /\ error_occurred = FALSE
  /\ queries = <<>>
  /\ replies = <<>>
  /\ snapshot = Snapshot(TRUE, EmptyMap)
  /\ events = <<>>
  /\ reports = <<>>

RunJob == \E j \in Jobs : RunJobStart(j)

\* what the pending check_output call may do
AttemptOutcomes == IF subpc = "try" THEN SubOutcomes(sub_job) ELSE {}

\* the identifiers of the pending djob call, in the order of the polled list
RECURSIVE TargetSeq(_, _)
TargetSeq(jobs, ids) ==
  IF jobs = <<>> THEN <<>>
  ELSE (IF Head(jobs).external_jobid \in ids THEN <<Head(jobs).external_jobid>> ELSE <<>>)
         \o TargetSeq(Tail(jobs), ids)

\* outputs with at most one line per requested identifier
RECURSIVE Listings(_)
Listings(idseq) ==
  IF idseq = <<>> THEN {<<>>}
  ELSE LET rest == Listings(Tail(idseq))
       IN  rest \cup {<<<<Head(idseq), t>>>> \o r : t \in CoreTokens, r \in rest}

\* what the pending djob call may do
CoreOutcomes ==
  IF pollpc \in {"active", "hist"}
  THEN {QueryOutcome(k, out) :
          k \in {"ok", "fail"},
          out \in Listings(TargetSeq(polled, queries[Len(queries)].ids))}
         \cup {QueryOutcome("noexec", <<>>)}
  ELSE {}

ActiveQuery == \E o \in CoreOutcomes : ActiveReturns(o)

HistQuery == \E o \in CoreOutcomes : HistReturns(o)

Next ==
  \/ RunJob
  \/ \E o \in AttemptOutcomes : AttemptSucceeds(o)
  \/ \E o \in AttemptOutcomes : AttemptFails(o)
  \/ \E o \in AttemptOutcomes : AttemptCannotLaunch(o)
  \/ BackoffSleep
  \/ PollStart
  \/ ActiveQuery
  \/ HistQuery
  \/ Reconcile

Spec == Init /\ [][Next]_vars

----------------------------------------------------------------------------
(* Properties of the lifecycle *)

Range(f) == {f[k] : k \in DOMAIN f}

\* how many of the events evs concern job and have a kind among kinds
CountOf(evs, job, kinds) ==
  Cardinality({k \in DOMAIN evs : evs[k].job = job /\ evs[k].kind \in kinds})

Terminal == {"success", "error"}

Outcomes == {"success", "error", "yield"}

\* a poll cycle has ended and its outcomes are those in events
CycleDone == pollpc = "idle" /\ queries # <<>>

\* the lines of a djob output that name id and carry a state
StateLinesOf(out, id) == {k \in DOMAIN out : Len(out[k]) >= 2 /\ out[k][1] = id}

Resolves(out, id) == StateLinesOf(out, id) # {}

\* the state of the last such line
LastState(out, id) ==
  out[CHOOSE k \in StateLinesOf(out, id) : \A m \in StateLinesOf(out, id) : m <= k][2]

\* C1: no external job identifier ever gets more than one terminal report
\* (so never a success and a failure), over any number of poll cycles; and a
\* submitted job is at every moment either tracked by the caller, in the
\* hands of the running cycle, or reported exactly once
C1_OneTerminalReport ==
  /\ \A id \in JobIds(submissions) :
       Cardinality({k \in DOMAIN reports : reports[k].job.external_jobid = id}) <= 1
  /\ pollpc \in {"idle"} =>
       \A k \in DOMAIN submissions :
         CountOf(reports, submissions[k], Terminal)
           + Cardinality({m \in DOMAIN active_jobs : active_jobs[m] = submissions[k]}) = 1

\* two jobs reported in two different cycles, the second after a re-yield
C1_Witness ==
  /\ CycleDone
  /\ Len(reports) = 2
  /\ Len(events) = 1
  /\ events[1].kind \in Terminal
  /\ reports[1].job # reports[2].job
  /\ reports[1].kind # reports[2].kind

\* C2: a job whose identifier the snapshot lacks is re-yielded and gets no report
C2_AbsentIdStaysPending ==
  (CycleDone /\ ~snapshot.none) =>
    \A k \in DOMAIN polled :
      polled[k].external_jobid \notin DOMAIN snapshot.map =>
        /\ CountOf(events, polled[k], {"yield"}) = 1
        /\ CountOf(events, polled[k], Terminal) = 0

\* C3: when every status query of a cycle fails (non-zero exit or no process),
\* every tracked job is re-yielded and nothing is reported
C3_FailedPollReyieldsAll ==
  (CycleDone /\ \A k \in DOMAIN replies : replies[k].kind # "ok") =>
    /\ Yielded(events) = polled
    /\ Reported(events) = <<>>

\* C4: in every poll cycle each job of the input list gets exactly one
\* outcome (success report, failure report or re-yield), and nothing else
\* gets one
C4_OneOutcomePerJob ==
  CycleDone =>
    /\ \A k \in DOMAIN polled : CountOf(events, polled[k], Outcomes) = 1
    /\ \A k \in DOMAIN events :
         events[k].job \in Range(polled) /\ events[k].kind \in Outcomes
    /\ Range(polled) = Range(Yielded(events)) \cup Range(JobsOf(Reported(events)))
    /\ Range(Yielded(events)) \cap Range(JobsOf(Reported(events))) = {}

\* a cycle over two jobs that reports one and re-yields the other
C4_Witness ==
  /\ CycleDone
  /\ Len(polled) = 2
  /\ Len(Yielded(events)) = 1
  /\ Len(Reported(events)) = 1

\* the identifiers the active query resolved
ActiveResolved ==
  {id \in JobIds(polled) : ReadsOutput(variant, replies[1]) /\ Resolves(replies[1].out, id)}

\* C5: the active query comes first, once, with all identifiers; the
\* historical query follows iff some identifier is left unresolved, with
\* exactly those; at most two calls per cycle
C5_QueryOrder ==
  (pollpc \in {"classify", "idle"} /\ queries # <<>>) =>
    /\ queries[1] = Query(<<>>, JobIds(polled))
    /\ Len(queries) <= 2
    /\ Len(queries) = 2 <=> JobIds(polled) \ ActiveResolved # {}
    /\ Len(queries) = 2 => queries[2] = Query(<<"-D">>, JobIds(polled) \ ActiveResolved)

\* the outcome a state token calls for
OutcomeOf(token) ==
  IF token \in {"FINISHED", "SUCCEEDED", "DONE", "0", "finished", "Done"} THEN "success"
  ELSE IF token \in {"FAILED", "ABORTED", "TIMEOUT", "NODE_FAIL", "TERMINATED", "EXIT",
                     "failed", "exit"} THEN "error"
  ELSE "yield"

\* C7: when one of the two queries fails and the other succeeds, the states
\* the successful one obtained are acted on in this cycle, and a job that no
\* output names is re-yielded
C7_MergePartial ==
  (CycleDone /\ Len(replies) = 2
     /\ (replies[1].kind = "ok") # (replies[2].kind = "ok")) =>
    LET g == IF replies[1].kind = "ok" THEN 1 ELSE 2
    IN  \A k \in DOMAIN polled :
          LET id == polled[k].external_jobid
              got == id \in queries[g].ids /\ Resolves(replies[g].out, id)
              unnamed == \A m \in DOMAIN replies : ~Resolves(replies[m].out, id)
          IN  /\ got => CountOf(events, polled[k],
                                {OutcomeOf(LastState(replies[g].out, id))}) = 1
              /\ unnamed => CountOf(events, polled[k], {"yield"}) = 1

\* the kinds of the check_output calls so far
CallKinds == [k \in DOMAIN calls |-> calls[k].kind]

\* a run_job is under way or has ended
RunSeen == sub_ret.kind # "none"

\* C9: at most 3 invocations, none after the first exit 0, the stripped
\* output of the successful one returned, and the k-th sleep, delay x k long,
\* between failed attempt k and attempt k+1 only
C9_RetryBackoff ==
  RunSeen =>
    /\ Len(calls) <= 3
    /\ \A k \in 1 .. Len(calls) - 1 : calls[k].kind = "fail"
    /\ sub_ret.kind = "submitted" =>
         /\ calls[Len(calls)].kind = "ok"
         /\ sub_ret.output = Strip(calls[Len(calls)].out)
    /\ \A k \in DOMAIN sleeps : sleeps[k] = delay * k
    /\ subpc = "try" => Len(sleeps) = Len(calls)
    /\ subpc \in {"sleep", "idle"} => Len(sleeps) = Len(calls) - 1
    /\ (subpc = "idle" /\ CallKinds = <<"fail", "fail", "ok">>) => sleeps = <<delay, 2 * delay>>

\* two failures, then a success that yields an identifier
C9_Witness ==
  /\ subpc = "idle"
  /\ CallKinds = <<"fail", "fail", "ok">>
  /\ sub_ret.kind = "submitted"
  /\ sleeps = <<2, 4>>

\* the run_job that ended last raised the submission WorkflowError
SubmissionFailed == sub_ret.kind = "WorkflowError" /\ sub_ret.why = "submission"

\* C10: three non-zero exits make run_job raise a WorkflowError that carries
\* the command and the captured output, and the job gets no submission report
C10_ExhaustedRetries ==
  /\ (subpc = "idle" /\ CallKinds = <<"fail", "fail", "fail">>) => SubmissionFailed
  /\ SubmissionFailed =>
       /\ CallKinds = <<"fail", "fail", "fail">>
       /\ sub_ret.cmd = CmdParts(variant, sub_job)
       /\ sub_ret.output = calls[3].out
       /\ sub_ret.output # <<>>
       /\ \A k \in DOMAIN submissions : submissions[k].job # sub_job
       /\ \A k \in DOMAIN active_jobs : active_jobs[k].job # sub_job

\* a second job's submission exhausted its retries after a first was submitted
C10_Witness ==
  /\ SubmissionFailed
  /\ subpc = "idle"
  /\ Len(submissions) = 1

----------------------------------------------------------------------------
(* One poll cycle over a tracked list, with djob printing arbitrary lines *)

\* the orders in which jobs can have been submitted and still be tracked
JobLists ==
  {js \in SeqsUpTo(Jobs, MaxJobs) :
     js # <<>> /\ \A a, b \in DOMAIN js : a # b => js[a] # js[b]}

InfoList(v, js) == [k \in DOMAIN js |-> SubmittedJobInfo(v, js[k], ExtId(js[k]))]

\* the submission side after the jobs of js were submitted, in this order,
\* each at its first attempt
Submitted(js) ==
  /\ started = Range(js)
  /\ subpc = "idle"
  /\ sub_job = js[Len(js)]
  /\ sub_i = 0
  /\ calls = <<SubOutcome("ok", OutBracket(js[Len(js)]))>>
  /\ sleeps = <<>>
  /\ sub_ret = Ret("submitted", "", CmdParts(variant, js[Len(js)]),
                   Strip(OutBracket(js[Len(js)])))
  /\ submissions = InfoList(variant, js)

\* check_active_jobs has been handed the tracked list and awaits the active query
InitPoll ==
  /\ variant \in Variants
  /\ descr = [j \in Jobs |-> DefaultJob]
  /\ cancels = <<>>
  /\ \E js \in JobLists :
       /\ Submitted(js)
       /\ polled = InfoList(variant, js)
       /\ queries = <<Query(<<>>, JobIds(InfoList(variant, js)))>>
  /\ active_jobs = <<>>
  /\ pollpc = "active"
  /\ status_map = EmptyMap
  /\ error_occurred = FALSE
  /\ replies = <<>>
  /\ snapshot = Snapshot(TRUE, EmptyMap)
  /\ events = <<>>
  /\ reports = <<>>

\* what the pending djob call may do
RichOutcomes ==
  IF pollpc \in {"active", "hist"}
  THEN QueryOutcomes(RichLines(JobIds(polled)), LinesLeft)
  ELSE {}

NextPoll ==
  \/ \E o \in RichOutcomes : ActiveReturns(o)
  \/ \E o \in RichOutcomes : HistReturns(o)
  \/ Reconcile

SpecPoll == InitPoll /\ [][NextPoll]_vars

\* C6: the snapshot's keys are queried identifiers; an identifier the active
\* query resolved keeps the active state whatever the historical output
\* says; any other key has the state of the historical output; a key comes
\* from a line with a state; and for ids {100, 200} with active 100 RUNNING
\* and historical 200 FINISHED the snapshot is {100: RUNNING, 200: FINISHED},
\* job 200 is reported success and job 100 is re-yielded
C6_SnapshotMerge ==
  (pollpc \in {"classify", "idle"} /\ ~snapshot.none) =>
    LET ids == JobIds(polled)
        map == snapshot.map
        act == replies[1].out
        his == IF Len(replies) = 2 THEN replies[2].out ELSE <<>>
    IN  /\ DOMAIN map \subseteq ids
        /\ \A id \in ids :
             Resolves(act, id) => id \in DOMAIN map /\ map[id] = LastState(act, id)
        /\ \A id \in ids :
             (~Resolves(act, id) /\ Resolves(his, id)) =>
               id \in DOMAIN map /\ map[id] = LastState(his, id)
        /\ \A id \in DOMAIN map : Resolves(act, id) \/ Resolves(his, id)
        /\ (/\ polled = InfoList(variant, <<1, 2>>)
            /\ replies = <<QueryOutcome("ok", <<<<ExtId(1), "RUNNING">>>>),
                           QueryOutcome("ok", <<<<ExtId(2), "FINISHED">>>>)>>) =>
             /\ map = [id \in {ExtId(1), ExtId(2)} |->
                         IF id = ExtId(1) THEN "RUNNING" ELSE "FINISHED"]
             /\ queries[2].ids = {ExtId(2)}
             /\ pollpc = "idle" =>
                  /\ Yielded(events) = <<polled[1]>>
                  /\ JobsOf(SelectKinds(events, {"success"})) = <<polled[2]>>
                  /\ SelectKinds(events, {"error"}) = <<>>

\* the cycle of the example has ended
C6_Witness ==
  /\ pollpc = "idle"
  /\ polled = InfoList(variant, <<1, 2>>)
  /\ replies = <<QueryOutcome("ok", <<<<ExtId(1), "RUNNING">>>>),
                 QueryOutcome("ok", <<<<ExtId(2), "FINISHED">>>>)>>
  /\ Len(reports) = 1

----------------------------------------------------------------------------
(* The reconciler over every snapshot *)

\* the snapshots over the identifiers ids
SnapshotMaps(ids) == UNION {[S -> Tokens] : S \in SUBSET ids}

\* the djob output that lists the states of m in the order of jobs
RECURSIVE ListingOf(_, _)
ListingOf(jobs, m) ==
  IF jobs = <<>> THEN <<>>
  ELSE (IF Head(jobs).external_jobid \in DOMAIN m
        THEN <<<<Head(jobs).external_jobid, m[Head(jobs).external_jobid]>>>>
        ELSE <<>>) \o ListingOf(Tail(jobs), m)

\* the poll has returned the snapshot m: the active query listed it, and the
\* historical query, asked about the rest, printed nothing
InitClassify ==
  /\ variant \in Variants
  /\ descr = [j \in Jobs |-> DefaultJob]
  /\ cancels = <<>>
  /\ \E js \in JobLists :
       /\ Submitted(js)
       /\ polled = InfoList(variant, js)
       /\ \E m \in SnapshotMaps(JobIds(InfoList(variant, js))) :
            LET ids == JobIds(InfoList(variant, js))
                rest == Remaining(ids, m)
            IN  /\ status_map = m
                /\ snapshot = Snapshot(FALSE, m)
                /\ queries = <<Query(<<>>, ids)>>
                               \o (IF rest # {} THEN <<Query(<<"-D">>, rest)>> ELSE <<>>)
                /\ replies = <<QueryOutcome("ok", ListingOf(InfoList(variant, js), m))>>
                               \o (IF rest # {} THEN <<QueryOutcome("ok", <<>>)>> ELSE <<>>)
  /\ active_jobs = <<>>
  /\ pollpc = "classify"
  /\ error_occurred = FALSE
  /\ events = <<>>
  /\ reports = <<>>

NextClassify == Reconcile

SpecClassify == InitClassify /\ [][NextClassify]_vars

\* the state a failure report names
ReportedState(token) ==
  CASE token = "failed" -> "FAILED" [] token = "exit" -> "EXIT" [] OTHER -> token

\* C8: a job whose identifier is in the snapshot gets the one outcome its
\* upper-cased state token calls for and no other: a success report for
\* FINISHED, SUCCEEDED, DONE, 0; a failure report with the state and the log
\* path for FAILED, ABORTED, TIMEOUT, NODE_FAIL, TERMINATED, EXIT; a re-yield
\* otherwise.  With a success token for every job nothing is re-yielded
C8_Classification ==
  (CycleDone /\ ~snapshot.none) =>
    /\ \A k \in DOMAIN polled :
         LET job == polled[k]
             id == job.external_jobid
         IN  id \in DOMAIN snapshot.map =>
               LET want == OutcomeOf(snapshot.map[id])
               IN  /\ CountOf(events, job, {want}) = 1
                   /\ CountOf(events, job, Outcomes \ {want}) = 0
                   /\ want = "error" =>
                        \E e \in DOMAIN events :
                          events[e] = Event("error", job, ReportedState(snapshot.map[id]),
                                            <<job.logfile>>)
    /\ (\A k \in DOMAIN polled :
          /\ polled[k].external_jobid \in DOMAIN snapshot.map
          /\ OutcomeOf(snapshot.map[polled[k].external_jobid]) = "success") =>
         /\ Yielded(events) = <<>>
         /\ JobsOf(SelectKinds(events, {"success"})) = polled
         /\ Len(events) = Len(polled)

\* two jobs, one in state "finished" and one in state "0", both reported
C8_Witness ==
  /\ CycleDone
  /\ Len(polled) = 2
  /\ ~snapshot.none
  /\ DOMAIN snapshot.map = JobIds(polled)
  /\ snapshot.map[polled[1].external_jobid] = "finished"
  /\ snapshot.map[polled[2].external_jobid] = "0"
  /\ Len(reports) = 2

----------------------------------------------------------------------------
(* One run_job whose dsub call may print any short text *)

\* longest text dsub prints
MaxText == 5

TextChars == {"<", ">", "1", "2", " ", "x"}

Texts == SeqsUpTo(TextChars, MaxText)

\* run_job has built the command of job j and is about to call check_output
InitExtract ==
  /\ variant \in Variants
  /\ descr = [j \in Jobs |-> DefaultJob]
  /\ cancels = <<>>
  /\ \E j \in Jobs :
       /\ started = {j}
       /\ sub_job = j
       /\ sub_ret = Ret("running", "", CmdParts(variant, j), <<>>)
  /\ subpc = "try"
  /\ sub_i = 0
  /\ calls = <<>>
  /\ sleeps = <<>>
  /\ submissions = <<>>
  /\ active_jobs = <<>>
  /\ pollpc = "idle"
  /\ polled = <<>>
  /\ status_map = EmptyMap
  /\ error_occurred = FALSE
  /\ queries = <<>>
  /\ replies = <<>>
  /\ snapshot = Snapshot(TRUE, EmptyMap)
  /\ events = <<>>
  /\ reports = <<>>

\* what the pending check_output call may do
TextOutcomes ==
  IF subpc = "try"
  THEN {SubOutcome("ok", t) : t \in Texts}
         \cup {SubOutcome("fail", OutError), SubOutcome("noexec", <<>>)}
  ELSE {}

NextExtract ==
  \/ \E o \in TextOutcomes : AttemptSucceeds(o)
  \/ \E o \in TextOutcomes : AttemptFails(o)
  \/ \E o \in TextOutcomes : AttemptCannotLaunch(o)
  \/ BackoffSleep

SpecExtract == InitExtract /\ [][NextExtract]_vars

\* s has "<", one or more digits, ">" from position p to position q
BracketSpan(s, p, q) ==
  /\ p + 1 < q
  /\ s[p] = "<"
  /\ s[q] = ">"
  /\ \A k \in p + 1 .. q - 1 : IsDigit(s[k])

HasBracketNumber(s) == \E p, q \in DOMAIN s : BracketSpan(s, p, q)

\* the digits of the bracketed number that starts leftmost
FirstBracketNumber(s) ==
  LET span == CHOOSE pq \in (DOMAIN s) \X (DOMAIN s) :
                /\ BracketSpan(s, pq[1], pq[2])
                /\ \A p, q \in DOMAIN s : BracketSpan(s, p, q) => pq[1] <= p
  IN  SubSeq(s, span[1] + 1, span[2] - 1)

\* the number of whitespace characters s starts with
Indent(s) ==
  CHOOSE n \in 0 .. Len(s) :
    /\ \A k \in 1 .. n : IsSpace(s[k])
    /\ n < Len(s) => ~IsSpace(s[n + 1])

HasLeadingNumber(s) == Indent(s) < Len(s) /\ IsDigit(s[Indent(s) + 1])

\* the digits that follow the leading whitespace, up to the first non-digit
LeadingNumber(s) ==
  LET a == Indent(s) + 1
      b == CHOOSE m \in a .. Len(s) :
             /\ \A k \in a .. m : IsDigit(s[k])
             /\ m < Len(s) => ~IsDigit(s[m + 1])
  IN  SubSeq(s, a, b)

\* what the dsub call that ended the run printed
LastOut == calls[Len(calls)].out

\* the last run_job has ended after a dsub call that exited 0
RanToExitZero == subpc = "idle" /\ calls # <<>> /\ calls[Len(calls)].kind = "ok"

ReportsOf(j) == {k \in DOMAIN submissions : submissions[k].job = j}

\* C11: a dsub call that exits 0 but prints neither a bracketed number nor a
\* leading number makes run_job raise a WorkflowError without reporting a
\* submission; a submission is reported at most once per run_job, only after
\* a dsub call that exited 0 and printed an identifier, and it carries that
\* identifier and the path of the job's log file
C11_ParseFailureNotReported ==
  /\ RanToExitZero /\ ~HasBracketNumber(LastOut) /\ ~HasLeadingNumber(LastOut) =>
       /\ sub_ret.kind = "WorkflowError"
       /\ sub_ret.why = "parse"
       /\ ReportsOf(sub_job) = {}
  /\ sub_ret.why = "parse" =>
       RanToExitZero /\ ~HasBracketNumber(LastOut) /\ ~HasLeadingNumber(LastOut)
  /\ \A j \in Jobs : Cardinality(ReportsOf(j)) <= 1
  /\ sub_job # 0 => (ReportsOf(sub_job) # {} <=> sub_ret.kind = "submitted")
  /\ sub_ret.kind = "submitted" =>
       /\ RanToExitZero
       /\ HasBracketNumber(LastOut) \/ HasLeadingNumber(LastOut)
       /\ submissions[Len(submissions)] =
            [job |-> sub_job,
             external_jobid |-> IF HasBracketNumber(LastOut)
                                THEN FirstBracketNumber(LastOut)
                                ELSE LeadingNumber(LastOut),
             logfile |-> LogFile(variant, sub_job)]

\* a second dsub attempt exits 0 and prints digits that neither lead the text
\* nor stand in angle brackets: run_job has raised the parse error
C11_Witness ==
  /\ RanToExitZero
  /\ Len(calls) = 2
  /\ sub_ret.why = "parse"
  /\ \E k \in DOMAIN LastOut : IsDigit(LastOut[k])
  /\ submissions = <<>>

\* C12: the identifier taken from the output of dsub depends on the text alone
\* and prefers the bracketed form: a text with a bracketed number anywhere
\* gives the first bracketed number, also when it starts with a number; a
\* text with only a leading number (after optional whitespace) gives that
C12_BracketPreferred ==
  RanToExitZero =>
    /\ HasBracketNumber(LastOut) =>
         /\ sub_ret.kind = "submitted"
         /\ submissions[Len(submissions)].external_jobid = FirstBracketNumber(LastOut)
    /\ ~HasBracketNumber(LastOut) /\ HasLeadingNumber(LastOut) =>
         /\ sub_ret.kind = "submitted"
         /\ submissions[Len(submissions)].external_jobid = LeadingNumber(LastOut)

\* dsub printed whitespace, a number and then another number in brackets
C12_Witness ==
  /\ RanToExitZero
  /\ HasBracketNumber(LastOut)
  /\ HasLeadingNumber(LastOut)
  /\ Indent(LastOut) > 0
  /\ FirstBracketNumber(LastOut) # LeadingNumber(LastOut)
  /\ sub_ret.kind = "submitted"

----------------------------------------------------------------------------
(* cancel_jobs *)

\* most cancel_jobs calls in one behaviour
MaxCancels == 2

\* what the dkill process does: exit 0 ("ok"), a non-zero exit ("fail") or no
\* process at all ("noexec")
CancelOutcomes == {"ok", "fail", "noexec"}

\* job_ids = [j.external_jobid for j in active_jobs]
CancelIds(jobs) == [k \in DOMAIN jobs |-> jobs[k].external_jobid]

\* one subprocess.run(["dkill", "-y", "--force"] + job_ids, check=False, ...)
DkillCall(jobs, o) == [verb |-> <<"dkill", "-y", "--force">>, ids |-> CancelIds(jobs), kind |-> o]

CancelRecord(jobs, run, raised) == [arg |-> jobs, run |-> run, raised |-> raised]

\* cancel_jobs without its try/except around subprocess.run
CancelResultUnguarded(jobs, o) ==
  IF jobs = <<>> THEN CancelRecord(jobs, <<>>, FALSE)
  ELSE CancelRecord(jobs, <<DkillCall(jobs, o)>>, o = "noexec")

\* cancel_jobs: nothing for an empty list; else one dkill call whose exit
\* status is not checked and whose exceptions are logged and dropped
CancelResult(jobs, o) ==
  IF jobs = <<>> THEN CancelRecord(jobs, <<>>, FALSE)
  ELSE CancelRecord(jobs, <<DkillCall(jobs, o)>>, FALSE)

\* the caller cancels the jobs it tracks
CancelJobs(o) ==
  /\ subpc = "idle"
  /\ pollpc = "idle"
  /\ Len(cancels) < MaxCancels
  /\ cancels' = Append(cancels, CancelResult(active_jobs, o))
  /\ UNCHANGED <<variant, active_jobs, descr>>
  /\ UNCHANGED subvars
  /\ UNCHANGED pollvars

NextCancel ==
  \/ RunJob
  \/ \E o \in AttemptOutcomes : AttemptSucceeds(o)
  \/ \E o \in AttemptOutcomes : AttemptFails(o)
  \/ \E o \in AttemptOutcomes : AttemptCannotLaunch(o)
  \/ BackoffSleep
  \/ \E o \in CancelOutcomes : CancelJobs(o)

SpecCancel == Init /\ [][NextCancel]_vars

\* C13: cancel_jobs on an empty list makes no external call and raises
\* nothing; on a non-empty list it makes exactly one dkill call naming every
\* external identifier of the list, without retry, and raises nothing whether
\* dkill exits 0, exits non-zero or cannot be launched
C13_CancelOnce ==
  \A k \in DOMAIN cancels :
    LET c == cancels[k]
    IN  /\ ~c.raised
        /\ c.arg = <<>> => c.run = <<>>
        /\ c.arg # <<>> =>
             /\ Len(c.run) = 1
             /\ c.run[1].verb = <<"dkill", "-y", "--force">>
             /\ Len(c.run[1].ids) = Len(c.arg)
             /\ \A m \in DOMAIN c.arg : c.run[1].ids[m] = c.arg[m].external_jobid

\* cancel_jobs was called with nothing tracked and later with two tracked
\* jobs, and that time dkill could not be launched
C13_Witness ==
  /\ Len(cancels) = 2
  /\ cancels[1].arg = <<>>
  /\ cancels[1].run = <<>>
  /\ Len(cancels[2].arg) = 2
  /\ cancels[2].run[1].kind = "noexec"

----------------------------------------------------------------------------
(* A djob process that never exits *)

\* await process.communicate() has no timeout: when the djob process of the
\* pending query never exits, query_djob never resumes
DjobHangs ==
  /\ pollpc \in {"active", "hist"}
  /\ pollpc' = "hung"
  /\ replies' = Append(replies, QueryOutcome("hang", <<>>))
  /\ UNCHANGED <<variant, active_jobs, polled, status_map, error_occurred, queries,
                 snapshot, events, reports>>
  /\ UNCHANGED subvars
  /\ UNCHANGED othervars

NextHang ==
  \/ RunJob
  \/ \E o \in AttemptOutcomes : AttemptSucceeds(o)
  \/ \E o \in AttemptOutcomes : AttemptFails(o)
  \/ \E o \in AttemptOutcomes : AttemptCannotLaunch(o)
  \/ BackoffSleep
  \/ PollStart
  \/ ActiveQuery
  \/ HistQuery
  \/ Reconcile
  \/ DjobHangs

SpecHang == Init /\ [][NextHang]_vars

\* the steps that bring a running poll cycle nearer to its end
PollStep == ActiveQuery \/ HistQuery \/ Reconcile

\* C14: a poll cycle that has started can always go on to its end, also when
\* a djob process hangs: the pending query returns or is cut off by a
\* timeout, so the cycle is never left with no step to take
C14_PollNeverBlocked == pollpc # "idle" => ENABLED PollStep

----------------------------------------------------------------------------
(* The submission command of one job, over the declarations a job can make *)

Priorities == {-5, 0, 7, 10000}

ThreadCounts == {0, 4}

RuntimeValues ==
  {Absent, IntV(30), StrV("45", <<"4", "5">>), StrV("abc", <<"a", "b", "c">>)}

Descriptors ==
  [priority : Priorities,
   threads : ThreadCounts,
   queue : {Absent, StrV("batch", <<"b", "a", "t", "c", "h">>)},
   partition : {Absent, StrV("gpu", <<"g", "p", "u">>)},
   nodes : {Absent, IntV(2)},
   replica : {Absent, IntV(3)},
   account : {Absent, StrV("proj", <<"p", "r", "o", "j">>)},
   mpi : {Absent, StrV("openmpi", <<"o", "p", "e", "n", "m", "p", "i">>)},
   exclusive : {Absent, IntV(1)},
   tag : {Absent, StrV("k=v", <<"k", "=", "v">>)},
   mem_mb : {Absent, IntV(2048)},
   mem_mb_per_cpu : {Absent, IntV(512)},
   runtime : RuntimeValues,
   time_min : {Absent, IntV(10)}]

\* the workflow's jobs all declare d; none has been handed to run_job yet
InitCmd ==
  /\ variant \in Variants
  /\ \E d \in Descriptors : descr = [j \in Jobs |-> d]
  /\ cancels = <<>>
  /\ started = {}
  /\ subpc = "idle"
  /\ sub_job = 0
  /\ sub_i = 0
  /\ calls = <<>>
  /\ sleeps = <<>>
  /\ sub_ret = NoRet
  /\ submissions = <<>>
  /\ active_jobs = <<>>
  /\ pollpc = "idle"
  /\ polled = <<>>
  /\ status_map = EmptyMap
  /\ error_occurred = FALSE
  /\ queries = <<>>
  /\ replies = <<>>
  /\ snapshot = Snapshot(TRUE, EmptyMap)
  /\ events = <<>>
  /\ reports = <<>>

NextCmd == RunJob

SpecCmd == InitCmd /\ [][NextCmd]_vars

\* run_job has built the command of sub_job and is about to run it
Built == subpc = "try" /\ sub_ret.kind = "running"

Cmd == sub_ret.cmd

\* what the job being submitted declares
Decl == descr[sub_job]

\* where the command carries the flag f
FlagAt(f) == {k \in 1 .. Len(Cmd) - 1 : Cmd[k] = f}

Declared(v) == v.tag # "none"

\* C15: the command carries -p exactly when the declared priority is not 0,
\* and its value is max(1, min(9999, priority)), which lies in 1 .. 9999
C15_PriorityFlag ==
  sub_job # 0 =>
    LET p == Decl.priority
        clamped == IF p < 1 THEN 1 ELSE IF p > 9999 THEN 9999 ELSE p
    IN  /\ Built
        /\ p # 0 <=> FlagAt("-p") # {}
        /\ Cardinality(FlagAt("-p")) <= 1
        /\ clamped \in 1 .. 9999
        /\ \A k \in FlagAt("-p") : Cmd[k + 1] = ToString(clamped)

\* C16: the command carries exactly one -R token, cpu=<max(1, threads)>,
\* mem=<mem_mb>MB with the numbers written out, where mem_mb is
\* mem_mb_per_cpu times the cpu count when mem_mb_per_cpu is declared, else
\* the declared mem_mb, else 1024
C16_ResourceToken ==
  sub_job # 0 =>
    LET cpus == IF Decl.threads > 1 THEN Decl.threads ELSE 1
        mem == IF Declared(Decl.mem_mb_per_cpu) THEN Decl.mem_mb_per_cpu.n * cpus
               ELSE IF Declared(Decl.mem_mb) THEN Decl.mem_mb.n
               ELSE 1024
    IN  /\ Built
        /\ Cardinality(FlagAt("-R")) = 1
        /\ \A k \in FlagAt("-R") :
             Cmd[k + 1] = "cpu=" \o ToString(cpus) \o ",mem=" \o ToString(mem) \o "MB"

\* the flags of the command, in the order it carries them: the tokens at
\* every second position after the seven leading ones
FlagSeq == [i \in 1 .. (Len(Cmd) - 8) \div 2 |-> Cmd[6 + 2 * i]]

Rank(order, f) == CHOOSE r \in DOMAIN order : order[r] = f

\* the command is dsub, -n name, -oo logpath, --cwd dir, then flags (each
\* with one value) in the relative order given, then the payload
TokensOrdered(order) ==
  Built =>
    /\ Len(Cmd) >= 10
    /\ Len(Cmd) % 2 = 0
    /\ SubSeq(Cmd, 1, 7) = <<"dsub", "-n", JobName(variant, sub_job), "-oo",
                             LogFile(variant, sub_job), "--cwd", "/wd">>
    /\ Cmd[Len(Cmd)] = ExecJobs[sub_job]
    /\ \A i \in DOMAIN FlagSeq : FlagSeq[i] \in Range(order)
    /\ \A i, k \in DOMAIN FlagSeq :
         i < k => Rank(order, FlagSeq[i]) < Rank(order, FlagSeq[k])

Convertible(v) ==
  \/ v.tag = "int"
  \/ v.tag = "str" /\ v.chars # <<>> /\ \A k \in DOMAIN v.chars : IsDigit(v.chars[k])

Minutes(v) == IF v.tag = "int" THEN v.n ELSE ToNumber(v.chars)

\* C18: a declared runtime (resources.runtime, else resources.time_min) that
\* int() rejects never fails the submission: the command is the one the job
\* would get without a runtime, so without -T, and run_job goes on to run it;
\* a value int() accepts gives -T with the minutes times 60
C18_BadRuntimeSkipsTimeout ==
  sub_job # 0 =>
    LET rt == IF Declared(Decl.runtime) THEN Decl.runtime ELSE Decl.time_min
    IN  Declared(rt) =>
          /\ Built
          /\ ~Convertible(rt) =>
               /\ FlagAt("-T") = {}
               /\ Cmd = CmdPartsOf(variant, sub_job,
                                   [Decl EXCEPT !.runtime = Absent, !.time_min = Absent])
          /\ Convertible(rt) =>
               /\ Cardinality(FlagAt("-T")) = 1
               /\ \A k \in FlagAt("-T") : Cmd[k + 1] = ToString(Minutes(rt) * 60)

\* runtime is declared as "abc" next to a numeric time_min: the command is
\* built without -T and about to be run
C18_Witness ==
  /\ Built
  /\ Decl.runtime.tag = "str"
  /\ ~Convertible(Decl.runtime)
  /\ Decl.time_min.tag = "int"
  /\ FlagAt("-T") = {}
  /\ Cmd[Len(Cmd)] = ExecJobs[sub_job]

----------------------------------------------------------------------------
(* Poll cycles one after another *)

\* a step of check_active_jobs
IsPollStep == pollvars' # pollvars

IsPrefix(a, b) == Len(a) <= Len(b) /\ SubSeq(b, 1, Len(a)) = a

\* every state of the snapshot was printed, for that identifier, by a djob
\* call of the cycle that built it, and the map is empty when a cycle starts
SnapshotOfThisCycle ==
  /\ pollpc = "active" => status_map = EmptyMap
  /\ (pollpc \in {"classify", "idle"} /\ queries # <<>> /\ ~snapshot.none) =>
       \A id \in DOMAIN snapshot.map :
         \E m \in DOMAIN replies :
           /\ ReadsOutput(variant, replies[m])
           /\ id \in queries[m].ids
           /\ Resolves(replies[m].out, id)
           /\ snapshot.map[id] = LastState(replies[m].out, id)

\* a step of a poll cycle leaves the submission side and the cancellations as
\* they are and only adds reports
PollStepFrame ==
  IsPollStep =>
    /\ UNCHANGED <<variant, started, subpc, sub_job, sub_i, calls, sleeps, sub_ret,
                   submissions, descr, cancels>>
    /\ IsPrefix(reports, reports')

\* C19: every poll cycle builds its snapshot from empty, so a state some
\* earlier cycle obtained is in no later snapshot unless the later cycle's
\* own djob calls print it; and a poll cycle changes nothing of the executor
\* but the reports it emits
C19_SnapshotFresh == []SnapshotOfThisCycle /\ [][PollStepFrame]_vars

\* a cycle has ended with a snapshot that holds nothing although a job was
\* polled, after an earlier cycle had seen another job fail
C19_Witness ==
  /\ CycleDone
  /\ ~snapshot.none
  /\ polled # <<>>
  /\ snapshot.map = EmptyMap
  /\ \E k \in DOMAIN reports :
       /\ reports[k].kind = "error"
       /\ reports[k].job \notin Range(polled)

----------------------------------------------------------------------------
(* Repeated poll cycles *)

\* what the pending check_output call does when dsub accepts every job at once
AcceptOutcomes == IF subpc = "try" THEN {SubOutcome("ok", OutBracket(sub_job))} ELSE {}

\* jobs are submitted, each accepted at the first attempt, while poll cycles run
NextLive ==
  \/ RunJob
  \/ \E o \in AcceptOutcomes : AttemptSucceeds(o)
  \/ PollStart
  \/ ActiveQuery
  \/ HistQuery
  \/ Reconcile

\* check_active_jobs is called again and again, each djob process ends, and
\* the reconciler runs once the snapshot is there
SpecLive ==
  /\ Init
  /\ [][NextLive]_vars
  /\ WF_vars(PollStart)
  /\ WF_vars(ActiveQuery)
  /\ WF_vars(HistQuery)
  /\ WF_vars(Reconcile)

TerminalTokens == SuccessTokens \cup FailTokens

\* the djob calls of the running (or last) cycle all exited 0 and printed
\* only success and failure states, and the historical call printed one for
\* every identifier it was asked about
VisibleTerminal ==
  \A m \in DOMAIN replies :
    /\ replies[m].kind = "ok"
    /\ \A k \in DOMAIN replies[m].out : replies[m].out[k][2] \in TerminalTokens
    /\ m = 2 => \A id \in queries[2].ids : Resolves(replies[2].out, id)

\* the jobs the caller tracks or the running cycle holds
Tracked == Range(active_jobs) \cup (IF pollpc # "idle" THEN Range(polled) ELSE {})

AllReported ==
  \A k \in DOMAIN submissions : CountOf(reports, submissions[k], Terminal) = 1

\* C20: with poll cycles repeated, if from some time on the status queries
\* succeed and show every job they are asked about in a success or failure
\* state (in the active or in the historical query), then from some time on
\* every submitted job has its terminal report and no job is tracked: no job
\* is re-yielded for ever
C20_EventuallyReported == <>[]VisibleTerminal => <>[](Tracked = {} /\ AllReported)

\* two jobs were polled together, the historical query was needed, and both
\* have their report with nothing left to track
C20_Witness ==
  /\ CycleDone
  /\ Len(polled) = 2
  /\ Len(replies) = 2
  /\ VisibleTerminal
  /\ Tracked = {}
  /\ AllReported
  /\ Len(reports) = 2

----------------------------------------------------------------------------
(* Failures of the dsub call other than a non-zero exit *)

\* C21: only a non-zero exit of dsub is retried: every call that is followed
\* by another one exited non-zero, with one sleep between them; a call that
\* cannot be launched ends run_job at once with that exception, not with the
\* WorkflowError of a failed submission, without a sleep after it and without
\* a submission report for the job
C21_OnlyNonZeroExitRetried ==
  RunSeen =>
    /\ \A k \in 1 .. Len(calls) - 1 : calls[k].kind = "fail"
    /\ Len(sleeps) = (IF subpc = "sleep" THEN Len(calls) - 1
                      ELSE IF subpc = "try" THEN Len(calls)
                      ELSE PyMax(0, Len(calls) - 1))
    /\ \A k \in DOMAIN calls :
         calls[k].kind = "noexec" =>
           /\ k = Len(calls)
           /\ subpc = "idle"
           /\ sub_ret.kind = "OSError"
           /\ sub_ret.kind # "WorkflowError"
           /\ Len(sleeps) = k - 1
           /\ ReportsOf(sub_job) = {}
           /\ \A m \in DOMAIN active_jobs : active_jobs[m].job # sub_job

\* dsub exited non-zero once and then could not be launched: run_job ended
\* with that exception after the one sleep between the two calls
C21_Witness ==
  /\ CallKinds = <<"fail", "noexec">>
  /\ sleeps = <<delay>>
  /\ subpc = "idle"
  /\ sub_ret.kind = "OSError"
  /\ submissions = <<>>

----------------------------------------------------------------------------
(* The order in which check_active_jobs goes through its list *)

\* a is b with some elements left out
RECURSIVE IsSubsequence(_, _)
IsSubsequence(a, b) ==
  IF a = <<>> THEN TRUE
  ELSE IF b = <<>> THEN FALSE
  ELSE IF Head(a) = Head(b) THEN IsSubsequence(Tail(a), Tail(b))
  ELSE IsSubsequence(a, Tail(b))

\* where the list handed to the cycle has job
PlaceOf(job) == CHOOSE k \in DOMAIN polled : polled[k] = job

\* C22: a poll cycle goes through the tracked jobs in the order of its input
\* list: the reports and re-yields come in that order whatever order djob
\* printed the states in, the re-yielded jobs are records of the input list
\* in their input order, and the cycle's reports are the last ones emitted,
\* in the same order
C22_InputOrder ==
  CycleDone =>
    /\ \A a \in DOMAIN events : events[a].job \in Range(polled)
    /\ \A a, b \in DOMAIN events :
         a < b => PlaceOf(events[a].job) <= PlaceOf(events[b].job)
    /\ IsSubsequence(Yielded(events), polled)
    /\ IsSubsequence(Yielded(events), active_jobs)
    /\ IsSubsequence(JobsOf(Reported(events)), polled)
    /\ Len(reports) >= Len(Reported(events))
    /\ SubSeq(reports, Len(reports) - Len(Reported(events)) + 1, Len(reports))
         = Reported(events)

\* djob printed the second job of the list first: the first job was
\* re-yielded and then the second reported successful
C22_Witness ==
  /\ CycleDone
  /\ Len(polled) = 2
  /\ Len(replies[1].out) = 2
  /\ replies[1].kind = "ok"
  /\ replies[1].out[1][1] = polled[2].external_jobid
  /\ replies[1].out[2][1] = polled[1].external_jobid
  /\ Len(events) = 2
  /\ events[1] = Event("yield", polled[1], "", <<>>)
  /\ events[2].kind = "success"
  /\ events[2].job = polled[2]

====
